---- MODULE Spec2Model ----
(***************************************************************************)
(* The OSS playback driver of libcanberra (src/libcanberra-0.13/src/oss.c) *)
(* as a state machine: the driver state (struct private), the list of      *)
(* outstanding requests, one player thread per request, and the API calls  *)
(* driver_open, driver_play, driver_cancel and driver_destroy, each split  *)
(* at the points where another thread can interleave.                      *)
(***************************************************************************)
EXTENDS Integers, Sequences, FiniteSets, TLC

(* ------------------------------ bounds --------------------------------- *)

\* number of driver_play calls of a run (one request slot per call)
MaxReq == 2
\* largest request id a caller passes
MaxId == 2
\* largest number of bytes a sound file holds
MaxSrc == 1

\* largest sample rate of a sound file in the runs that negotiate rates
MaxRate == 40

\* largest number of bytes of a sound file in the runs that stream one file
MaxStream == 6

\* largest channel count of a sound file
MaxCh == 3

\* BUFSIZE of the player thread, scaled from 4*1024 bytes to 4 bytes
BUFSIZE == 4

Req == 1..MaxReq
Ids == 1..MaxId

(* --------------------------- status codes ------------------------------ *)

CA_SUCCESS == "CA_SUCCESS"
CA_ERROR_NOTSUPPORTED == "CA_ERROR_NOTSUPPORTED"
CA_ERROR_INVALID == "CA_ERROR_INVALID"
CA_ERROR_STATE == "CA_ERROR_STATE"
CA_ERROR_OOM == "CA_ERROR_OOM"
CA_ERROR_SYSTEM == "CA_ERROR_SYSTEM"
CA_ERROR_NOTFOUND == "CA_ERROR_NOTFOUND"
CA_ERROR_DESTROYED == "CA_ERROR_DESTROYED"
CA_ERROR_CANCELED == "CA_ERROR_CANCELED"
CA_ERROR_NOTAVAILABLE == "CA_ERROR_NOTAVAILABLE"
CA_ERROR_ACCESS == "CA_ERROR_ACCESS"
CA_ERROR_IO == "CA_ERROR_IO"
CA_ERROR_CORRUPT == "CA_ERROR_CORRUPT"
NoRet == "none"

\* translate_error: errno -> status
translate_error(error) ==
    CASE error \in {"ENODEV", "ENOENT"} -> CA_ERROR_NOTFOUND
      [] error \in {"EACCES", "EPERM"} -> CA_ERROR_ACCESS
      [] error = "ENOMEM" -> CA_ERROR_OOM
      [] error = "EBUSY" -> CA_ERROR_NOTAVAILABLE
      [] error = "EINVAL" -> CA_ERROR_INVALID
      [] error = "ENOSYS" -> CA_ERROR_NOTSUPPORTED
      [] OTHER -> CA_ERROR_IO

(* ------------------------------ state ---------------------------------- *)

VARIABLES
    private,          \* c->private is non-NULL
    outstanding,      \* p->outstanding, head first, as request slots
    mutex,            \* holder of p->outstanding_mutex
    signal_semaphore, \* p->signal_semaphore
    semaphore,        \* value of p->semaphore
    out,              \* struct outstanding of each slot
    fds,              \* what the OS knows of each slot's descriptors
    src,              \* sound file and device of each slot: bytes left
                      \* to read, and in detailed runs bytes written and
                      \* channel count
    ppc,              \* position of the driver_play call of each slot
    wpc,              \* position of the player thread of each slot
    wst,              \* live locals of the player thread of each slot
    cbs,              \* statuses the callback of each slot was invoked with
    cancel,           \* the driver_cancel call: pc, id, cursor
    destroy,          \* the driver_destroy call: pc, cursor
    lastRet,          \* the call that returned in the last step, and what
    halted,           \* "no", or how the run ended: "abort" | "undefined"
    env               \* what the run's callers and files are drawn from

vars == <<private, outstanding, mutex, signal_semaphore, semaphore, out, fds,
          src, ppc, wpc, wst, cbs, cancel, destroy, lastRet, halted, env>>

drv == <<private, outstanding, mutex, signal_semaphore, semaphore>>

(* thread names *)
Nobody == [t |-> "none", r |-> 0]
Worker(r) == [t |-> "worker", r |-> r]
Player(r) == [t |-> "play", r |-> r]
Canceller == [t |-> "cancel", r |-> 0]
Destroyer == [t |-> "destroy", r |-> 0]

\* ca_new0(struct outstanding, 1) and lines 423-428
NewOut(id) ==
    [alloc |-> "live", id |-> id, dead |-> FALSE, file |-> FALSE,
     pcm |-> FALSE, pipe0 |-> FALSE, pipe1 |-> FALSE]

NoOut ==
    [alloc |-> "none", id |-> 0, dead |-> FALSE, file |-> FALSE,
     pcm |-> FALSE, pipe0 |-> FALSE, pipe1 |-> FALSE]

\* d is the offset of the cursor d from data, and data the bytes of the
\* buffer, each byte of a sound file being named by its position in the file
NoLocals == [ret |-> NoRet, nbytes |-> 0, data_size |-> 0, exit |-> "none",
             d |-> 0, data |-> <<>>]

\* read counts the bytes read from the file so far; dev is what the device
\* has been written, byte by byte
NoSrc == [left |-> 0, written |-> 0, nchannels |-> 0, read |-> 0,
          dev |-> <<>>]

\* what the OS knows of a descriptor or file handle
NoFds == [file |-> "unopened", pcm |-> "unopened", pipe0 |-> "unopened",
          pipe1 |-> "unopened"]

CancelIdle == [pc |-> "idle", id |-> 0, cur |-> 0]
DestroyIdle == [pc |-> "idle", cur |-> 0]

\* a call returns a status to its caller; r is the slot of a driver_play.
NoReturn == [call |-> "none", r |-> 0, ret |-> NoRet]
Returned(call, r, ret) == [call |-> call, r |-> r, ret |-> ret]

\* close() as the OS sees it
Close(s) ==
    CASE s = "open" -> "closed"
      [] s = "closed" -> "double"
      [] OTHER -> "bad"

\* CA_LLIST_REMOVE
Remove(list, r) == SelectSeq(list, LAMBDA x : x # r)

\* outstanding_free: the request is freed memory, its fields are gone
outstanding_free(o) ==
    [NoOut EXCEPT !.alloc = "freed"]

\* outstanding_free: the close() calls it makes, by the fields it tests
free_closes(o, f) ==
    [pipe1 |-> IF o.pipe1 THEN Close(f.pipe1) ELSE f.pipe1,
     pipe0 |-> IF o.pipe0 THEN Close(f.pipe0) ELSE f.pipe0,
     file |-> IF o.file THEN Close(f.file) ELSE f.file,
     pcm |-> IF o.pcm THEN Close(f.pcm) ELSE f.pcm]

\* the state before driver_open, for a run drawn from environment e
Fresh(e, h) ==
    /\ private = FALSE
    /\ outstanding = <<>>
    /\ mutex = Nobody
    /\ signal_semaphore = FALSE
    /\ semaphore = 0
    /\ out = [r \in Req |-> NoOut]
    /\ fds = [r \in Req |-> NoFds]
    /\ src = [r \in Req |-> NoSrc]
    /\ ppc = [r \in Req |-> "idle"]
    /\ wpc = [r \in Req |-> "none"]
    /\ wst = [r \in Req |-> NoLocals]
    /\ cbs = [r \in Req |-> <<>>]
    /\ cancel = CancelIdle
    /\ destroy = DestroyIdle
    /\ lastRet = NoReturn
    /\ halted = h
    /\ env = e

\* the concurrent runs: MaxReq driver_play calls
Concurrent == [calls |-> MaxReq, detail |-> FALSE]
\* the detailed runs: one driver_play call, every failure of the system
\* calls, and the channel counts and byte counts kept
Detailed == [calls |-> 1, detail |-> TRUE]

Init == Fresh(Concurrent, "no")
InitDetailed == Fresh(Detailed, "no")

Running == halted = "no"

\* the process ends in abort(): nothing is left of its threads and memory
Halt(how) ==
    /\ private' = FALSE
    /\ outstanding' = <<>>
    /\ mutex' = Nobody
    /\ signal_semaphore' = FALSE
    /\ semaphore' = 0
    /\ out' = [r \in Req |-> NoOut]
    /\ fds' = [r \in Req |-> NoFds]
    /\ src' = [r \in Req |-> NoSrc]
    /\ ppc' = [r \in Req |-> "idle"]
    /\ wpc' = [r \in Req |-> "none"]
    /\ wst' = [r \in Req |-> NoLocals]
    /\ cbs' = [r \in Req |-> <<>>]
    /\ cancel' = CancelIdle
    /\ destroy' = DestroyIdle
    /\ lastRet' = NoReturn
    /\ halted' = how
    /\ UNCHANGED env

(* ---------------------------- driver_open ------------------------------ *)

\* driver_open, lines 107-124. A failure of ca_mutex_new or sem_init runs
\* driver_destroy on the half-built state, which frees it again.
driver_open ==
    /\ Running
    /\ \E fail \in {"no", "ca_new0", "ca_mutex_new", "sem_init"} :
        IF private
        THEN /\ lastRet' = Returned("open", 0, CA_ERROR_STATE)
             /\ UNCHANGED drv
        ELSE IF fail = "no"
        THEN /\ private' = TRUE
             /\ outstanding' = <<>>
             /\ mutex' = Nobody
             /\ signal_semaphore' = FALSE
             /\ semaphore' = 0
             /\ lastRet' = Returned("open", 0, CA_SUCCESS)
        ELSE /\ lastRet' = Returned("open", 0, CA_ERROR_OOM)
             /\ UNCHANGED drv
    /\ UNCHANGED <<out, fds, src, ppc, wpc, wst, cbs, cancel, destroy,
                   halted, env>>

(* ----------------------------- open_oss -------------------------------- *)

\* what the device answers to one negotiation: an errno or "ok" per system
\* call, whether SETFMT hands the format back unchanged, what CHANNELS adds
\* to the channel count asked for, and the rate SPEED hands back
AllOk == [open |-> "ok", fcntl |-> "ok", fmtOk |-> TRUE, chans |-> 0,
          speed |-> 100]
Devices ==
    { AllOk, [AllOk EXCEPT !.open = "ENODEV"],
      [AllOk EXCEPT !.fcntl = "EINVAL"], [AllOk EXCEPT !.fmtOk = FALSE],
      [AllOk EXCEPT !.chans = 1], [AllOk EXCEPT !.speed = 105],
      [AllOk EXCEPT !.speed = 106] }

Abs(x) == IF x < 0 THEN -x ELSE x

\* open_oss without the test of line 240
open_oss_any_channels(nchannels, rate, d) ==
    LET val == d.speed IN
    IF d.open # "ok" THEN [ret |-> translate_error(d.open), pcm |-> FALSE]
    ELSE IF d.fcntl # "ok" THEN [ret |-> translate_error(d.fcntl), pcm |-> TRUE]
    ELSE IF ~d.fmtOk THEN [ret |-> CA_ERROR_NOTSUPPORTED, pcm |-> TRUE]
    ELSE IF nchannels + d.chans # nchannels
         THEN [ret |-> CA_ERROR_NOTSUPPORTED, pcm |-> TRUE]
    ELSE IF 20 * Abs(val - rate) > rate
         THEN [ret |-> CA_ERROR_NOTSUPPORTED, pcm |-> TRUE]
    ELSE [ret |-> CA_SUCCESS, pcm |-> TRUE]

\* open_oss with the rate test of line 295 turning the boundary down
open_oss_open_band(nchannels, rate, d) ==
    LET val == d.speed IN
    IF ~(nchannels <= 2) THEN [ret |-> CA_ERROR_NOTSUPPORTED, pcm |-> FALSE]
    ELSE IF d.open # "ok" THEN [ret |-> translate_error(d.open), pcm |-> FALSE]
    ELSE IF d.fcntl # "ok" THEN [ret |-> translate_error(d.fcntl), pcm |-> TRUE]
    ELSE IF ~d.fmtOk THEN [ret |-> CA_ERROR_NOTSUPPORTED, pcm |-> TRUE]
    ELSE IF nchannels + d.chans # nchannels
         THEN [ret |-> CA_ERROR_NOTSUPPORTED, pcm |-> TRUE]
    ELSE IF 20 * Abs(val - rate) >= rate
         THEN [ret |-> CA_ERROR_NOTSUPPORTED, pcm |-> TRUE]
    ELSE [ret |-> CA_SUCCESS, pcm |-> TRUE]

\* open_oss, lines 238-306: the status it returns and whether out->pcm is
\* left open. rate is the file's rate, d the device's answers.
\* Line 295 compares fabs((double)(val - test)) with test * 0.05 in doubles.
\* The double 0.05 is 1/20 * (1 + 2^-54), so for an int test that is a
\* multiple of 20 the product rounds to test/20 exactly, and for any other
\* int test it stays more than 1/20 - 2^-24 away from every integer: the
\* comparison with the integer |val - test| is that of 20 * |val - test|
\* with test.
open_oss(nchannels, rate, d) ==
    LET val == d.speed IN
    IF ~(nchannels <= 2) THEN [ret |-> CA_ERROR_NOTSUPPORTED, pcm |-> FALSE]
    ELSE IF d.open # "ok" THEN [ret |-> translate_error(d.open), pcm |-> FALSE]
    ELSE IF d.fcntl # "ok" THEN [ret |-> translate_error(d.fcntl), pcm |-> TRUE]
    ELSE IF ~d.fmtOk THEN [ret |-> CA_ERROR_NOTSUPPORTED, pcm |-> TRUE]
    ELSE IF nchannels + d.chans # nchannels
         THEN [ret |-> CA_ERROR_NOTSUPPORTED, pcm |-> TRUE]
    ELSE IF 20 * Abs(val - rate) > rate
         THEN [ret |-> CA_ERROR_NOTSUPPORTED, pcm |-> TRUE]
    ELSE [ret |-> CA_SUCCESS, pcm |-> TRUE]

(* ----------------------------- driver_play ----------------------------- *)

\* the sound files ca_lookup_sound can resolve to
Files ==
    { [nchannels |-> n, rate |-> 100, bytes |-> b] :
        n \in 1..MaxCh,
        b \in IF env.detail THEN 0..MaxSrc ELSE {MaxSrc} }

Max(S) == IF S = {} THEN 0 ELSE CHOOSE x \in S : \A y \in S : y <= x

\* the ids a caller can pass. Ids are only compared for equality, so a
\* run is drawn up to renaming: an id is one in use, or the smallest unused
IdsInUse ==
    {out[r].id : r \in {x \in Req : out[x].alloc = "live"}}
    \cup (IF cancel.pc # "idle" THEN {cancel.id} ELSE {})
CallerIds == {i \in Ids : i <= 1 + Max(IdsInUse)}

\* the i-th driver_play call of a run uses slot i
NextCall(r) ==
    /\ r <= env.calls
    /\ ppc[r] = "idle"
    /\ \A q \in 1..(r - 1) : ppc[q] # "idle"

\* driver_play, lines 411-414: the argument and state checks
PlayInvalid(r) ==
    /\ Running
    /\ NextCall(r)
    /\ \E badarg \in BOOLEAN :
        /\ badarg \/ ~private
        /\ lastRet' = Returned("play", r,
                         IF badarg THEN CA_ERROR_INVALID ELSE CA_ERROR_STATE)
    /\ ppc' = [ppc EXCEPT ![r] = "failed"]
    /\ UNCHANGED <<drv, out, fds, src, wpc, wst, cbs, cancel, destroy,
                   halted, env>>

\* the descriptors and handles a request holds once the step named has
\* been passed: pipe() at 430, ca_lookup_sound at 435, open() at 244
Opened(o, f, upto, pcm) ==
    [o |-> [o EXCEPT !.pipe0 = upto >= 1, !.pipe1 = upto >= 1,
                     !.file = upto >= 2, !.pcm = pcm],
     f |-> [f EXCEPT !.pipe0 = IF upto >= 1 THEN "open" ELSE @,
                     !.pipe1 = IF upto >= 1 THEN "open" ELSE @,
                     !.file = IF upto >= 2 THEN "open" ELSE @,
                     !.pcm = IF pcm THEN "open" ELSE @]]

\* driver_play, lines 414-439 and, on failure, 458-464: everything up to the
\* registration touches only the new request. ca_new0 failing leaves out
\* NULL and outstanding_free(NULL) stops at ca_assert(o).
PlayPrepare(r) ==
    /\ Running
    /\ NextCall(r)
    /\ private
    /\ \E id \in CallerIds, step \in {"ok", "ca_new0", "pipe", "lookup"},
          f \in Files, d \in Devices :
        LET neg == open_oss(f.nchannels, f.rate, d)
            got == CASE step = "pipe" -> Opened(NewOut(id), NoFds, 0, FALSE)
                     [] step = "lookup" -> Opened(NewOut(id), NoFds, 1, FALSE)
                     [] OTHER -> Opened(NewOut(id), NoFds, 2, neg.pcm)
            ret == CASE step = "pipe" -> CA_ERROR_SYSTEM
                     [] step = "lookup" -> CA_ERROR_NOTFOUND
                     [] OTHER -> neg.ret
            nch == IF env.detail /\ step = "ok" THEN f.nchannels ELSE 0
        IN
        IF step = "ca_new0"
        THEN Halt("abort")
        ELSE IF ret # CA_SUCCESS
        THEN /\ out' = [out EXCEPT ![r] = outstanding_free(got.o)]
             /\ fds' = [fds EXCEPT ![r] = free_closes(got.o, got.f)]
             /\ src' = [src EXCEPT ![r].nchannels = nch]
             /\ ppc' = [ppc EXCEPT ![r] = "failed"]
             /\ lastRet' = Returned("play", r, ret)
             /\ UNCHANGED <<drv, wpc, wst, cbs, cancel, destroy,
                            halted, env>>
        ELSE /\ out' = [out EXCEPT ![r] = got.o]
             /\ fds' = [fds EXCEPT ![r] = got.f]
             /\ src' = [src EXCEPT ![r] =
                          [NoSrc EXCEPT !.left = f.bytes, !.nchannels = nch]]
             /\ ppc' = [ppc EXCEPT ![r] = "register"]
             /\ lastRet' = NoReturn
             /\ UNCHANGED <<drv, wpc, wst, cbs, cancel, destroy,
                            halted, env>>

\* driver_play, lines 442-444
PlayRegister(r) ==
    /\ Running
    /\ ppc[r] = "register"
    /\ mutex = Nobody
    /\ outstanding' = <<r>> \o outstanding
    /\ ppc' = [ppc EXCEPT ![r] = "create"]
    /\ lastRet' = NoReturn
    /\ UNCHANGED <<private, mutex, signal_semaphore, semaphore, out,
                   fds, src, wpc, wst, cbs, cancel, destroy,
                   halted, env>>

\* driver_play, lines 446 and 456-464: pthread_create starts the thread
PlayCreate(r) ==
    /\ Running
    /\ ppc[r] = "create"
    /\ wpc' = [wpc EXCEPT ![r] = "start"]
    /\ ppc' = [ppc EXCEPT ![r] = "accepted"]
    /\ lastRet' = Returned("play", r, CA_SUCCESS)
    /\ UNCHANGED <<drv, out, fds, src, wst, cbs, cancel, destroy,
                   halted, env>>

\* what pthread_create answers when it starts no thread: an error number,
\* and error numbers are positive (EAGAIN is 11)
ThreadErrors == {11}

\* driver_play, lines 446-464: pthread_create starts no thread. Line 446
\* takes the failure branch of lines 447-453 on an answer below zero; on any
\* other answer the call goes on to line 456 with the request on the list
PlayCreateFails(r) ==
    /\ Running
    /\ ppc[r] = "create"
    /\ \E e \in ThreadErrors :
        IF e < 0
        THEN /\ mutex = Nobody
             /\ outstanding' = Remove(outstanding, r)
             /\ out' = [out EXCEPT ![r] = outstanding_free(@)]
             /\ fds' = [fds EXCEPT ![r] = free_closes(out[r], @)]
             /\ src' = [src EXCEPT ![r] = [NoSrc EXCEPT !.nchannels =
                                                     src[r].nchannels]]
             /\ ppc' = [ppc EXCEPT ![r] = "failed"]
             /\ lastRet' = Returned("play", r, CA_ERROR_OOM)
             /\ UNCHANGED <<private, mutex, signal_semaphore, semaphore,
                            wpc, wst, cbs, cancel, destroy, halted, env>>
        ELSE /\ ppc' = [ppc EXCEPT ![r] = "accepted"]
             /\ lastRet' = Returned("play", r, CA_SUCCESS)
             /\ UNCHANGED <<drv, out, fds, src, wpc, wst, cbs, cancel,
                            destroy, halted, env>>

(* ----------------------------- thread_func ----------------------------- *)

Min(a, b) == IF a < b THEN a ELSE b

\* ca_sound_file_frame_size: one or two channels of U8 or S16 samples
FrameSizes == {1, 2, 4}

\* what malloc(), poll(), the sound file and write() can answer; the
\* concurrent runs draw the failures of a player thread from poll() alone
Mallocs == IF env.detail THEN BOOLEAN ELSE {TRUE}
PollAnswers == {"error", "POLLOUT"} \cup
               (IF env.detail THEN {"POLLERR"} ELSE {})
ReadErrors == IF env.detail THEN {CA_ERROR_CORRUPT} ELSE {}
WriteErrnos == IF env.detail THEN {"EBUSY"} ELSE {}

\* thread_func, lines 381-388: the loop is left with status ret (a break
\* gives CA_SUCCESS), the buffer is freed and out->dead is tested, unlocked
LeaveLoop(r, ret, why) ==
    IF ~out[r].dead
    THEN /\ wpc' = [wpc EXCEPT ![r] = "callback"]
         /\ wst' = [wst EXCEPT ![r] = [NoLocals EXCEPT !.ret = ret,
                                                       !.exit = why]]
    ELSE /\ wpc' = [wpc EXCEPT ![r] = "lock"]
         /\ wst' = [wst EXCEPT ![r] = NoLocals]

\* thread_func, lines 340-344: the top of the loop, out->dead read unlocked
LoopTop(r, locals) ==
    IF out[r].dead
    THEN LeaveLoop(r, CA_SUCCESS, "dead")
    ELSE /\ wpc' = [wpc EXCEPT ![r] = "poll"]
         /\ wst' = [wst EXCEPT ![r] = locals]

\* thread_func, lines 321-344: the thread starts and enters the loop
WStart(r) ==
    /\ Running
    /\ wpc[r] = "start"
    /\ \E malloc \in Mallocs, fs \in FrameSizes :
        IF malloc
        THEN LoopTop(r, [wst[r] EXCEPT !.data_size = (BUFSIZE \div fs) * fs])
        ELSE LeaveLoop(r, CA_ERROR_OOM, "oom")
    /\ lastRet' = NoReturn
    /\ UNCHANGED <<drv, out, fds, src, ppc, cbs, cancel, destroy,
                   halted, env>>

\* thread_func, lines 346-370: poll returns; the read end of the pipe is
\* readable (hung up) once its write end is closed; then the refill
WPoll(r) ==
    /\ Running
    /\ wpc[r] = "poll"
    /\ \E ans \in PollAnswers, rd \in {CA_SUCCESS} \cup ReadErrors :
        LET n == IF wst[r].nbytes <= 0
                 THEN Min(wst[r].data_size, src[r].left)
                 ELSE wst[r].nbytes
        IN
        IF ans = "error"
        THEN LeaveLoop(r, CA_ERROR_SYSTEM, "poll") /\ UNCHANGED src
        ELSE IF fds[r].pipe1 # "open"
        THEN LeaveLoop(r, CA_SUCCESS, "signal") /\ UNCHANGED src
        ELSE IF ans # "POLLOUT"
        THEN LeaveLoop(r, CA_ERROR_IO, "notready") /\ UNCHANGED src
        ELSE IF wst[r].nbytes <= 0 /\ rd # CA_SUCCESS
        THEN LeaveLoop(r, rd, "read") /\ UNCHANGED src
        ELSE IF n <= 0
        THEN LeaveLoop(r, CA_SUCCESS, "eof") /\ UNCHANGED src
        ELSE IF wst[r].nbytes <= 0
        THEN /\ wst' = [wst EXCEPT ![r].nbytes = n, ![r].d = 0,
                                   ![r].data = IF env.detail
                                               THEN [i \in 1..n |->
                                                       src[r].read + i]
                                               ELSE <<>>]
             /\ src' = [src EXCEPT ![r].left = @ - n,
                                   ![r].read = IF env.detail
                                               THEN @ + n ELSE @]
             /\ wpc' = [wpc EXCEPT ![r] = "write"]
        ELSE /\ wpc' = [wpc EXCEPT ![r] = "write"]
             /\ UNCHANGED <<wst, src>>
    /\ lastRet' = NoReturn
    /\ UNCHANGED <<drv, out, fds, ppc, cbs, cancel, destroy, halted,
                   env>>

\* thread_func without the advance of lines 377-378
WWrite_no_advance(r) ==
    /\ Running
    /\ wpc[r] = "write"
    /\ LoopTop(r, wst[r])
    /\ lastRet' = NoReturn
    /\ UNCHANGED <<drv, out, fds, src, ppc, cbs, cancel, destroy, halted,
                   env>>

\* thread_func without the advance of the cursor at line 378
WWrite_cursor_stuck(r) ==
    /\ Running
    /\ wpc[r] = "write"
    /\ \E bytes_written \in 1..wst[r].nbytes :
        /\ LoopTop(r, [wst[r] EXCEPT !.nbytes = @ - bytes_written])
        /\ src' = [src EXCEPT
                     ![r].written = @ + bytes_written,
                     ![r].dev = @ \o SubSeq(wst[r].data, wst[r].d + 1,
                                            wst[r].d + bytes_written)]
    /\ lastRet' = NoReturn
    /\ UNCHANGED <<drv, out, fds, ppc, cbs, cancel, destroy, halted,
                   env>>

\* thread_func, lines 372-378 and 340-344: write() returns
WWrite(r) ==
    /\ Running
    /\ wpc[r] = "write"
    /\ \E w \in {[bytes_written |-> n, errno |-> "ok"] :
                    n \in 1..wst[r].nbytes}
                \cup {[bytes_written |-> -1, errno |-> e] :
                        e \in WriteErrnos} :
        IF w.bytes_written >= 0
        THEN /\ LoopTop(r, [wst[r] EXCEPT
                               !.nbytes = @ - w.bytes_written,
                               !.d = IF env.detail
                                     THEN @ + w.bytes_written ELSE @])
             /\ src' = [src EXCEPT
                          ![r].written =
                              IF env.detail THEN @ + w.bytes_written ELSE @,
                          ![r].dev =
                              IF env.detail
                              THEN @ \o SubSeq(wst[r].data, wst[r].d + 1,
                                               wst[r].d + w.bytes_written)
                              ELSE @]
        ELSE /\ LeaveLoop(r, translate_error(w.errno), "write")
             /\ UNCHANGED src
    /\ lastRet' = NoReturn
    /\ UNCHANGED <<drv, out, fds, ppc, cbs, cancel, destroy, halted,
                   env>>

\* thread_func with ret = CA_SUCCESS moved below the finish label
WCallback_success(r) ==
    /\ Running
    /\ wpc[r] = "callback"
    /\ cbs' = [cbs EXCEPT ![r] = Append(@, CA_SUCCESS)]
    /\ wpc' = [wpc EXCEPT ![r] = "lock"]
    /\ wst' = [wst EXCEPT ![r] = NoLocals]
    /\ lastRet' = NoReturn
    /\ UNCHANGED <<drv, out, fds, src, ppc, cancel, destroy, halted,
                   env>>

\* thread_func, line 389
WCallback(r) ==
    /\ Running
    /\ wpc[r] = "callback"
    /\ cbs' = [cbs EXCEPT ![r] = Append(@, wst[r].ret)]
    /\ wpc' = [wpc EXCEPT ![r] = "lock"]
    /\ wst' = [wst EXCEPT ![r] = NoLocals]
    /\ lastRet' = NoReturn
    /\ UNCHANGED <<drv, out, fds, src, ppc, cancel, destroy, halted,
                   env>>

\* the thread posting and going on to free without CA_LLIST_REMOVE
WDeregister_keeps_listed(r) ==
    /\ Running
    /\ wpc[r] = "lock"
    /\ mutex = Nobody
    /\ mutex' = Worker(r)
    /\ outstanding' = outstanding
    /\ semaphore' = IF outstanding' = <<>> /\ signal_semaphore
                    THEN semaphore + 1 ELSE semaphore
    /\ wpc' = [wpc EXCEPT ![r] = "free"]
    /\ lastRet' = NoReturn
    /\ UNCHANGED <<private, signal_semaphore, out, fds, src, ppc,
                   wst, cbs, cancel, destroy, halted, env>>

\* thread_func, lines 391-396
WDeregister(r) ==
    /\ Running
    /\ wpc[r] = "lock"
    /\ mutex = Nobody
    /\ mutex' = Worker(r)
    /\ outstanding' = Remove(outstanding, r)
    /\ semaphore' = IF outstanding' = <<>> /\ signal_semaphore
                    THEN semaphore + 1 ELSE semaphore
    /\ wpc' = [wpc EXCEPT ![r] = "free"]
    /\ lastRet' = NoReturn
    /\ UNCHANGED <<private, signal_semaphore, out, fds, src, ppc,
                   wst, cbs, cancel, destroy, halted, env>>

\* thread_func, lines 398-402
WRelease(r) ==
    /\ Running
    /\ wpc[r] = "free"
    /\ out' = [out EXCEPT ![r] = outstanding_free(@)]
    /\ fds' = [fds EXCEPT ![r] = free_closes(out[r], @)]
    /\ src' = [src EXCEPT ![r] = NoSrc]
    /\ mutex' = Nobody
    /\ wpc' = [wpc EXCEPT ![r] = "done"]
    /\ lastRet' = NoReturn
    /\ UNCHANGED <<private, outstanding, signal_semaphore, semaphore,
                   ppc, wst, cbs, cancel, destroy, halted,
                   env>>

(* --------------------- marking a request dead -------------------------- *)

\* the callback invoked without out->dead = TRUE
MarkDead_no_flag(r, status) ==
    /\ out' = out
    /\ cbs' = [cbs EXCEPT ![r] = Append(@, status)]

\* lines 486-489 and 145-148: out->dead = TRUE and the callback
MarkDead(r, status) ==
    /\ out' = [out EXCEPT ![r].dead = TRUE]
    /\ cbs' = [cbs EXCEPT ![r] = Append(@, status)]

\* lines 492-495 and 151-154: close the write end of the pipe
ClosePipe(r) ==
    IF out[r].pipe1
    THEN /\ fds' = [fds EXCEPT ![r].pipe1 = Close(@)]
         /\ out' = [out EXCEPT ![r].pipe1 = FALSE]
    ELSE UNCHANGED <<fds, out>>

\* out = out->next: is there an element after the one at cur
More(cur) == cur + 1 <= Len(outstanding)

(* ---------------------------- driver_cancel ---------------------------- *)

\* driver_cancel, lines 471-472
CancelInvalid ==
    /\ Running
    /\ cancel.pc = "idle"
    /\ ~private
    /\ lastRet' = Returned("cancel", 0, CA_ERROR_STATE)
    /\ UNCHANGED <<drv, out, fds, src, ppc, wpc, wst, cbs, cancel, destroy, halted, env>>

\* driver_cancel, lines 471-474
CancelEnter ==
    /\ Running
    /\ cancel.pc = "idle"
    /\ private
    /\ \E id \in CallerIds : cancel' = [pc |-> "lock", id |-> id, cur |-> 0]
    /\ lastRet' = NoReturn
    /\ UNCHANGED <<drv, out, fds, src, ppc, wpc, wst, cbs, destroy,
                   halted, env>>

\* driver_cancel, lines 498-500
CancelReturn ==
    /\ mutex' = Nobody
    /\ cancel' = CancelIdle
    /\ lastRet' = Returned("cancel", 0, CA_SUCCESS)

\* driver_cancel, lines 476-478, and 498-500 when the list is empty
CancelLock ==
    /\ Running
    /\ cancel.pc = "lock"
    /\ mutex = Nobody
    /\ IF More(0)
       THEN /\ mutex' = Canceller
            /\ cancel' = [cancel EXCEPT !.pc = "scan", !.cur = 1]
            /\ lastRet' = NoReturn
       ELSE CancelReturn
    /\ UNCHANGED <<private, outstanding, signal_semaphore, semaphore,
                   out, fds, src, ppc, wpc, wst, cbs, destroy,
                   halted, env>>

\* the cursor moves on, or driver_cancel unlocks and returns
CancelAdvance ==
    IF More(cancel.cur)
    THEN /\ cancel' = [cancel EXCEPT !.pc = "scan", !.cur = @ + 1]
         /\ lastRet' = NoReturn
         /\ UNCHANGED mutex
    ELSE CancelReturn

\* driver_cancel without the test of out->id at line 480
CancelStep_any_id ==
    /\ Running
    /\ cancel.pc = "scan"
    /\ LET r == outstanding[cancel.cur] IN
        IF out[r].dead
        THEN /\ CancelAdvance
             /\ UNCHANGED <<out, cbs>>
        ELSE /\ MarkDead(r, CA_ERROR_CANCELED)
             /\ cancel' = [cancel EXCEPT !.pc = "close"]
             /\ lastRet' = NoReturn
             /\ UNCHANGED mutex
    /\ UNCHANGED <<private, outstanding, signal_semaphore, semaphore, fds,
                   src, ppc, wpc, wst, destroy, halted, env>>

\* driver_cancel, lines 480-489, for the element under the cursor
CancelStep ==
    /\ Running
    /\ cancel.pc = "scan"
    /\ LET r == outstanding[cancel.cur] IN
        IF out[r].id # cancel.id \/ out[r].dead
        THEN /\ CancelAdvance
             /\ UNCHANGED <<out, cbs>>
        ELSE /\ MarkDead(r, CA_ERROR_CANCELED)
             /\ cancel' = [cancel EXCEPT !.pc = "close"]
             /\ lastRet' = NoReturn
             /\ UNCHANGED mutex
    /\ UNCHANGED <<private, outstanding, signal_semaphore, semaphore, fds,
                   src, ppc, wpc, wst, destroy, halted, env>>

\* driver_cancel, lines 491-496
CancelClose ==
    /\ Running
    /\ cancel.pc = "close"
    /\ ClosePipe(outstanding[cancel.cur])
    /\ CancelAdvance
    /\ UNCHANGED <<private, outstanding, signal_semaphore, semaphore, src,
                   ppc, wpc, wst, cbs, destroy, halted, env>>

(* --------------------------- driver_destroy ---------------------------- *)

\* driver_destroy without the test of c->private at line 132
DestroyInvalid_unchecked ==
    /\ Running
    /\ destroy.pc = "idle"
    /\ ~private
    /\ signal_semaphore' = TRUE
    /\ lastRet' = Returned("destroy", 0, CA_SUCCESS)
    /\ UNCHANGED <<private, outstanding, mutex, semaphore, out, fds, src, ppc,
                   wpc, wst, cbs, cancel, destroy, halted, env>>

\* driver_destroy, lines 131-132
DestroyInvalid ==
    /\ Running
    /\ destroy.pc = "idle"
    /\ ~private
    /\ lastRet' = Returned("destroy", 0, CA_ERROR_STATE)
    /\ UNCHANGED <<drv, out, fds, src, ppc, wpc, wst, cbs, cancel, destroy, halted, env>>

\* the drain without the unlock of line 161 before sem_wait
Drain_keeps_mutex ==
    /\ signal_semaphore' = TRUE
    /\ mutex' = IF outstanding # <<>> THEN Destroyer ELSE Nobody
    /\ destroy' = [pc |-> IF outstanding # <<>> THEN "sem_wait" ELSE "free",
                   cur |-> 0]

\* driver_destroy, lines 157-161 and 167: the draining flag is set and the
\* loop test is made with the mutex held; the mutex is released either to
\* wait on the semaphore or to go on to free the driver state
Drain ==
    /\ signal_semaphore' = TRUE
    /\ mutex' = Nobody
    /\ destroy' = [pc |-> IF outstanding # <<>> THEN "sem_wait" ELSE "free",
                   cur |-> 0]

\* driver_destroy, lines 132-140, and the drain when the list is empty
DestroyLock ==
    /\ Running
    /\ destroy.pc = "idle"
    /\ private
    /\ mutex = Nobody
    /\ IF More(0)
       THEN /\ mutex' = Destroyer
            /\ destroy' = [pc |-> "scan", cur |-> 1]
            /\ UNCHANGED signal_semaphore
       ELSE Drain
    /\ lastRet' = NoReturn
    /\ UNCHANGED <<private, outstanding, semaphore, out, fds, src, ppc, wpc,
                   wst, cbs, cancel, halted, env>>

\* the cursor moves on, or the marking loop ends and the drain begins
DestroyAdvance ==
    IF More(destroy.cur)
    THEN /\ destroy' = [destroy EXCEPT !.pc = "scan", !.cur = @ + 1]
         /\ UNCHANGED <<mutex, signal_semaphore>>
    ELSE Drain

\* driver_destroy without the test of out->dead at line 142
DestroyStep_marks_dead ==
    /\ Running
    /\ destroy.pc = "scan"
    /\ LET r == outstanding[destroy.cur] IN
        /\ MarkDead(r, CA_ERROR_DESTROYED)
        /\ destroy' = [destroy EXCEPT !.pc = "close"]
        /\ UNCHANGED <<mutex, signal_semaphore>>
    /\ lastRet' = NoReturn
    /\ UNCHANGED <<private, outstanding, semaphore, fds, src, ppc, wpc, wst,
                   cancel, halted, env>>

\* driver_destroy, lines 142-148, for the element under the cursor
DestroyStep ==
    /\ Running
    /\ destroy.pc = "scan"
    /\ LET r == outstanding[destroy.cur] IN
        IF out[r].dead
        THEN /\ DestroyAdvance
             /\ UNCHANGED <<out, cbs>>
        ELSE /\ MarkDead(r, CA_ERROR_DESTROYED)
             /\ destroy' = [destroy EXCEPT !.pc = "close"]
             /\ UNCHANGED <<mutex, signal_semaphore>>
    /\ lastRet' = NoReturn
    /\ UNCHANGED <<private, outstanding, semaphore, fds, src, ppc, wpc, wst,
                   cancel, halted, env>>

\* driver_destroy, lines 150-155
DestroyClose ==
    /\ Running
    /\ destroy.pc = "close"
    /\ ClosePipe(outstanding[destroy.cur])
    /\ DestroyAdvance
    /\ lastRet' = NoReturn
    /\ UNCHANGED <<private, outstanding, semaphore, src, ppc, wpc, wst, cbs,
                   cancel, halted, env>>

\* driver_destroy, line 162
DestroySemWait ==
    /\ Running
    /\ destroy.pc = "sem_wait"
    /\ semaphore > 0
    /\ semaphore' = semaphore - 1
    /\ destroy' = [destroy EXCEPT !.pc = "relock"]
    /\ lastRet' = NoReturn
    /\ UNCHANGED <<private, outstanding, mutex, signal_semaphore, out, fds,
                   src, ppc, wpc, wst, cbs, cancel, halted, env>>

\* driver_destroy, lines 163, 160-161 and 167: the mutex is taken again and
\* the loop test repeated
DestroyRelock ==
    /\ Running
    /\ destroy.pc = "relock"
    /\ mutex = Nobody
    /\ Drain
    /\ lastRet' = NoReturn
    /\ UNCHANGED <<private, outstanding, semaphore, out, fds, src, ppc, wpc,
                   wst, cbs, cancel, halted, env>>

\* the threads that hold a pointer to the driver state, or will read one
HoldsDriver ==
    {Player(r) : r \in {x \in Req : ppc[x] \in {"register", "create"}}}
    \cup {Worker(r) : r \in {x \in Req : wpc[x] \notin {"none", "done"}}}
    \cup (IF cancel.pc # "idle" THEN {Canceller} ELSE {})

\* driver_destroy, lines 168-181: the mutex, the semaphore and the driver
\* state are freed and c->private is cleared. When another thread still
\* holds the driver state, its next use of it is a use after free (and the
\* mutex it may hold is destroyed locked): the run is undefined from here.
DestroyFree ==
    /\ Running
    /\ destroy.pc = "free"
    /\ private' = FALSE
    /\ destroy' = DestroyIdle
    /\ lastRet' = Returned("destroy", 0, CA_SUCCESS)
    /\ halted' = IF HoldsDriver = {} THEN "no" ELSE "undefined"
    /\ UNCHANGED <<outstanding, mutex, signal_semaphore, semaphore, out, fds,
                   src, ppc, wpc, wst, cbs, cancel, env>>

(* --------------------------- specification ----------------------------- *)

Next ==
    \/ driver_open
    \/ \E r \in Req : PlayInvalid(r)
    \/ \E r \in Req : PlayPrepare(r)
    \/ \E r \in Req : PlayRegister(r)
    \/ \E r \in Req : PlayCreate(r)
    \/ \E r \in Req : PlayCreateFails(r)
    \/ \E r \in Req : WStart(r)
    \/ \E r \in Req : WPoll(r)
    \/ \E r \in Req : WWrite(r)
    \/ \E r \in Req : WCallback(r)
    \/ \E r \in Req : WDeregister(r)
    \/ \E r \in Req : WRelease(r)
    \/ CancelInvalid
    \/ CancelEnter
    \/ CancelLock
    \/ CancelStep
    \/ CancelClose
    \/ DestroyInvalid
    \/ DestroyLock
    \/ DestroyStep
    \/ DestroyClose
    \/ DestroySemWait
    \/ DestroyRelock
    \/ DestroyFree

(* ----------------------- negotiation on its own ------------------------- *)

\* a run that negotiates one rate: a file of rate r on a device that hands
\* back rate a and takes the format and the channel count unchanged
Rated(r, a) == [calls |-> 0, detail |-> TRUE, rate |-> r, speed |-> a]

InitRate ==
    \E r \in 1..MaxRate, a \in 0..(2 * MaxRate) : Fresh(Rated(r, a), "no")

\* open_oss is called for the file and the device of the run
Negotiate ==
    /\ Running
    /\ \E nchannels \in 1..2 :
        lastRet' = Returned("open_oss", 0,
                     open_oss(nchannels, env.rate,
                              [AllOk EXCEPT !.speed = env.speed]).ret)
    /\ UNCHANGED <<drv, out, fds, src, ppc, wpc, wst, cbs, cancel, destroy,
                   halted, env>>

SpecRate == InitRate /\ [][Negotiate]_vars

(* ------------------------ streaming on its own -------------------------- *)

\* a run that streams one file of n bytes: every failure of the system
\* calls, every size of a partial write, and driver_cancel
Streaming(n) == [calls |-> 1, detail |-> TRUE, bytes |-> n]

\* the state when driver_play has returned CA_SUCCESS for the first request
\* of an open driver, the file holding n bytes
InitStream ==
    \E n \in 0..MaxStream :
        LET got == Opened(NewOut(1), NoFds, 2, TRUE) IN
        /\ private = TRUE
        /\ outstanding = <<1>>
        /\ mutex = Nobody
        /\ signal_semaphore = FALSE
        /\ semaphore = 0
        /\ out = [r \in Req |-> IF r = 1 THEN got.o ELSE NoOut]
        /\ fds = [r \in Req |-> IF r = 1 THEN got.f ELSE NoFds]
        /\ src = [r \in Req |-> IF r = 1 THEN [NoSrc EXCEPT !.left = n]
                                ELSE NoSrc]
        /\ ppc = [r \in Req |-> IF r = 1 THEN "accepted" ELSE "idle"]
        /\ wpc = [r \in Req |-> IF r = 1 THEN "start" ELSE "none"]
        /\ wst = [r \in Req |-> NoLocals]
        /\ cbs = [r \in Req |-> <<>>]
        /\ cancel = CancelIdle
        /\ destroy = DestroyIdle
        /\ lastRet = Returned("play", 1, CA_SUCCESS)
        /\ halted = "no"
        /\ env = Streaming(n)

NextStream ==
    \/ \E r \in Req : WStart(r)
    \/ \E r \in Req : WPoll(r)
    \/ \E r \in Req : WWrite(r)
    \/ \E r \in Req : WCallback(r)
    \/ \E r \in Req : WDeregister(r)
    \/ \E r \in Req : WRelease(r)
    \/ CancelEnter
    \/ CancelLock
    \/ CancelStep
    \/ CancelClose

SpecStream == InitStream /\ [][NextStream]_vars

Spec == Init /\ [][Next]_vars
SpecDetailed == InitDetailed /\ [][Next]_vars

\* the scheduler is fair to every thread inside a call or a player thread:
\* a thread that can run does, and one that waits for the mutex gets it.
\* Nothing makes the application start a call.
Fairness ==
    /\ \A r \in Req :
        /\ WF_vars(WStart(r) \/ WPoll(r) \/ WWrite(r) \/ WCallback(r)
                     \/ WRelease(r))
        /\ SF_vars(WDeregister(r))
        /\ SF_vars(PlayRegister(r))
        /\ WF_vars(PlayCreate(r) \/ PlayCreateFails(r))
    /\ WF_vars(CancelStep \/ CancelClose)
    /\ SF_vars(CancelLock)
    /\ WF_vars(DestroyStep \/ DestroyClose \/ DestroySemWait \/ DestroyFree)
    /\ SF_vars(DestroyRelock)

SpecFair == SpecDetailed /\ Fairness

(* ------------------------------- claims -------------------------------- *)

\* C1: the callback of a driver_play that returned CA_SUCCESS is invoked
\* exactly once over the whole run: never twice under any interleaving of
\* the player thread with driver_cancel and driver_destroy, and not zero
\* times once the player thread is over.
C1_CallbackExactlyOnce ==
    \A r \in Req :
        ppc[r] = "accepted" =>
            /\ Len(cbs[r]) <= 1
            /\ wpc[r] = "done" => Len(cbs[r]) = 1

\* C2: once the player thread of a request has invoked the callback
\* itself, whether or not it has taken the request off the list yet, a
\* driver_cancel called from then on invokes no further callback for that
\* request.
C2_CancelAfterCompletion ==
    \A r \in Req :
        []( ( /\ wpc[r] \in {"lock", "free", "done"}
              /\ Len(cbs[r]) = 1
              /\ cbs[r][1] \notin {CA_ERROR_CANCELED, CA_ERROR_DESTROYED}
              /\ cancel.pc = "idle" )
            => [](\A i \in DOMAIN cbs[r] : cbs[r][i] # CA_ERROR_CANCELED) )

\* C3: when driver_destroy returns CA_SUCCESS the list of outstanding
\* requests is empty, every request that was put on the list has had its
\* callback invoked and has been taken off the list by its player thread,
\* and the drain loop is left after a sem_wait only with the list empty,
\* also when a driver_play registers a request after the marking loop.
C3_DestroyReturnsDrained ==
    [][ /\ (destroy.pc = "relock" /\ destroy'.pc = "free")
            => outstanding = <<>>
        /\ lastRet' = Returned("destroy", 0, CA_SUCCESS)
            => /\ outstanding = <<>>
               /\ \A r \in Req :
                    ppc[r] \in {"create", "accepted"} =>
                        cbs[r] # <<>> /\ wpc[r] = "done" ]_vars

\* C4: under fair scheduling a driver_destroy that has been entered
\* eventually returns: it does not wait on the semaphore for ever.
C4_DestroyReturns ==
    (destroy.pc # "idle") ~> (destroy.pc = "idle")

\* C5: driver_cancel acts on exactly the requests on the list whose id is
\* the id passed and that are not dead: each is marked dead, has its
\* callback invoked with CA_ERROR_CANCELED and the write end of its pipe
\* closed. Every other request, and the list, is left as it was, and
\* driver_cancel returns CA_SUCCESS whether or not a request matched.
C5_CancelFrame ==
    [][(cancel' # cancel /\ cancel.pc # "idle" /\ halted' # "abort") =>
        /\ outstanding' = outstanding
        /\ \A r \in Req :
            LET under == /\ cancel.pc \in {"scan", "close"}
                         /\ outstanding[cancel.cur] = r
                hit == /\ under
                       /\ cancel.pc = "scan"
                       /\ out[r].id = cancel.id
                       /\ ~out[r].dead
            IN  /\ hit => /\ out'[r] = [out[r] EXCEPT !.dead = TRUE]
                          /\ cbs'[r] = Append(cbs[r], CA_ERROR_CANCELED)
                          /\ fds'[r] = fds[r]
                          /\ cancel'.pc = "close"
                /\ (under /\ cancel.pc = "close") =>
                          /\ fds'[r] = [fds[r] EXCEPT !.pipe1 = "closed"]
                          /\ out'[r].dead
                          /\ cbs'[r] = cbs[r]
                /\ (~hit /\ ~(under /\ cancel.pc = "close")) =>
                          /\ out'[r] = out[r]
                          /\ cbs'[r] = cbs[r]
                          /\ fds'[r] = fds[r]
        /\ cancel'.pc = "idle" =>
            /\ lastRet' = Returned("cancel", 0, CA_SUCCESS)
            /\ \A i \in DOMAIN outstanding :
                out'[outstanding[i]].id = cancel.id =>
                    /\ out'[outstanding[i]].dead
                    /\ fds'[outstanding[i]].pipe1 = "closed" ]_vars

\* a driver_cancel has returned that cancelled one request on the list and
\* left another, of a different id, alone
C5_Witness ==
    /\ lastRet = Returned("cancel", 0, CA_SUCCESS)
    /\ \E r1, r2 \in Req :
        /\ outstanding = <<r1, r2>>
        /\ cbs[r1] = <<CA_ERROR_CANCELED>>
        /\ out[r1].dead
        /\ fds[r1].pipe1 = "closed"
        /\ out[r2].id # out[r1].id
        /\ ~out[r2].dead
        /\ cbs[r2] = <<>>
        /\ fds[r2].pipe1 = "open"

\* C6: the marking loop of driver_destroy marks every request on the list
\* that is not dead, invokes its callback with CA_ERROR_DESTROYED and closes
\* the write end of its pipe; a request that is already dead is skipped, so
\* no request ever gets both CA_ERROR_CANCELED and CA_ERROR_DESTROYED.
C6_DestroyMarks ==
    /\ [][( /\ destroy' # destroy
             /\ destroy.pc \in {"scan", "close"}
             /\ halted' # "abort" ) =>
            /\ outstanding' = outstanding
            /\ \A r \in Req :
                LET under == outstanding[destroy.cur] = r IN
                /\ (under /\ destroy.pc = "scan" /\ ~out[r].dead) =>
                        /\ out'[r] = [out[r] EXCEPT !.dead = TRUE]
                        /\ cbs'[r] = Append(cbs[r], CA_ERROR_DESTROYED)
                        /\ destroy'.pc = "close"
                /\ (under /\ destroy.pc = "close") =>
                        /\ fds'[r] = [fds[r] EXCEPT !.pipe1 = "closed"]
                        /\ cbs'[r] = cbs[r]
                /\ ~(under /\ (destroy.pc = "close" \/ ~out[r].dead)) =>
                        /\ out'[r] = out[r]
                        /\ cbs'[r] = cbs[r]
                        /\ fds'[r] = fds[r]
            /\ destroy'.pc \in {"sem_wait", "free"} =>
                \A i \in DOMAIN outstanding :
                    /\ out'[outstanding[i]].dead
                    /\ fds'[outstanding[i]].pipe1 = "closed" ]_vars
    /\ [](\A r \in Req : \A i, j \in DOMAIN cbs[r] :
            ~(cbs[r][i] = CA_ERROR_CANCELED /\ cbs[r][j] = CA_ERROR_DESTROYED))

\* the marking loop is over: it has skipped a cancelled request and marked
\* a live one
C6_Witness ==
    /\ destroy.pc = "sem_wait"
    /\ \E r1, r2 \in Req :
        /\ outstanding = <<r1, r2>>
        /\ cbs[r1] = <<CA_ERROR_CANCELED>>
        /\ cbs[r2] = <<CA_ERROR_DESTROYED>>
        /\ out[r1].dead /\ out[r2].dead
        /\ fds[r2].pipe1 = "closed"

\* C7: a driver_play that returns an error has started no player thread,
\* has left its request off the list, and no callback was or will be invoked
\* for it, also when driver_cancel or driver_destroy ran between the
\* registration and the failure of pthread_create; and a driver_play whose
\* pthread_create started no thread is one of those that return an error.
C7_FailedPlayLeavesNothing ==
    \A r \in Req :
        /\ ppc[r] = "failed" =>
            /\ wpc[r] = "none"
            /\ \A i \in DOMAIN outstanding : outstanding[i] # r
            /\ cbs[r] = <<>>
        /\ ppc[r] = "accepted" => wpc[r] # "none"

\* C8: on every way out of a request (driver_play failing at any stage,
\* pthread_create starting no thread being one, and the player thread ending
\* by end of stream, failure, cancel or destroy) the sound file, the device
\* and both ends of the pipe, if opened, are closed, and nothing is ever
\* closed twice or closed unopened.
C8_ReleasedOnce ==
    \A r \in Req : \A k \in {"file", "pcm", "pipe0", "pipe1"} :
        /\ fds[r][k] \in {"unopened", "open", "closed"}
        /\ (out[r].alloc = "freed" \/ ppc[r] = "failed" \/ wpc[r] = "done")
            => fds[r][k] \in {"unopened", "closed"}
        /\ (ppc[r] = "accepted" /\ wpc[r] = "none")
            => fds[r][k] \in {"unopened", "closed"}

C10_ChannelCheck ==
    /\ [][\A r \in Req :
            (ppc[r] = "idle" /\ ppc'[r] # "idle" /\ src'[r].nchannels # 0) =>
                IF src'[r].nchannels > 2
                THEN /\ lastRet' = Returned("play", r, CA_ERROR_NOTSUPPORTED)
                     /\ ppc'[r] = "failed"
                     /\ fds'[r].pcm = "unopened"
                ELSE ~ ( /\ lastRet' = Returned("play", r,
                                                CA_ERROR_NOTSUPPORTED)
                         /\ fds'[r].pcm = "unopened" ) ]_vars
    /\ [](\A r \in Req :
            src[r].nchannels > 2 =>
                /\ wpc[r] = "none"
                /\ src[r].written = 0
                /\ fds[r].pcm = "unopened")

\* driver_play has turned down a file of three channels
C10_Witness ==
    /\ lastRet = Returned("play", 1, CA_ERROR_NOTSUPPORTED)
    /\ src[1].nchannels = 3
    /\ fds[1].pcm = "unopened"
    /\ fds[1].file = "closed"

\* C11: with the format and the channel count taken unchanged, open_oss
\* returns CA_SUCCESS exactly when the rate a the device hands back is
\* within 5% of the rate r asked for, 20 * |a - r| <= r, the boundary
\* included, and CA_ERROR_NOTSUPPORTED otherwise.
C11_RateBand ==
    lastRet.call = "open_oss" =>
        LET d == IF env.speed < env.rate THEN env.rate - env.speed
                 ELSE env.speed - env.rate
        IN  IF 20 * d <= env.rate
            THEN lastRet.ret = CA_SUCCESS
            ELSE lastRet.ret = CA_ERROR_NOTSUPPORTED

\* a rate exactly 5% above the one asked for has been accepted
C11_Witness ==
    /\ lastRet = Returned("open_oss", 0, CA_SUCCESS)
    /\ env.rate = 20
    /\ env.speed = 21

\* C12: the status a player thread passes to the callback itself is
\* CA_SUCCESS exactly when it left the loop because the sound file had no
\* byte left to read; after a read error it is the status of the read,
\* after a poll() error CA_ERROR_SYSTEM, after a device not ready for
\* writing CA_ERROR_IO, after a failed write() the translated errno.
C12_WorkerStatus ==
    [][\A r \in Req :
        (wpc[r] = "callback" /\ wpc'[r] = "lock") =>
            LET why == wst[r].exit
                status == cbs'[r][Len(cbs'[r])]
            IN  /\ cbs'[r] = Append(cbs[r], status)
                /\ status = CA_SUCCESS <=> why = "eof"
                /\ why = "eof" => src[r].left = 0
                /\ why = "read" => status \in ReadErrors
                /\ why = "poll" => status = CA_ERROR_SYSTEM
                /\ why = "notready" => status = CA_ERROR_IO
                /\ why = "write" =>
                    status \in {translate_error(e) : e \in WriteErrnos}
                /\ why \in {"eof", "read", "poll", "notready", "write",
                            "oom"} ]_vars

\* a player thread has written the whole file and passed CA_SUCCESS
C12_Witness ==
    \E r \in Req :
        /\ wpc[r] = "lock"
        /\ cbs[r] = <<CA_SUCCESS>>
        /\ src[r].written = MaxSrc
        /\ src[r].left = 0

C14_CancelBeforeFirstWrite ==
    [][\A r \in Req :
        /\ ( /\ cancel.pc = "scan"
             /\ cancel'.pc = "close"
             /\ outstanding[cancel.cur] = r
             /\ src[r].written = 0 )
            => cbs'[r] = <<CA_ERROR_CANCELED>>
        /\ ( /\ wpc[r] = "callback"
             /\ src[r].written = 0
             /\ cbs[r] = <<CA_ERROR_CANCELED>> )
            => cbs'[r] = cbs[r]
        /\ ( /\ wpc[r] \in {"callback", "lock", "free"}
             /\ halted' # "abort" )
            => /\ wpc'[r] \in {"callback", "lock", "free", "done"}
               /\ src'[r].written = src[r].written \/ wpc'[r] = "done"
               /\ src'[r].left = src[r].left \/ wpc'[r] = "done" ]_vars

\* C15: no thread holds the mutex of the list while it is in write(),
\* poll() or sem_wait(): a player thread holds it only from taking its
\* request off the list to freeing it, driver_play never across a step,
\* driver_cancel and driver_destroy only while they walk the list, and
\* driver_destroy not while it waits on the semaphore or afterwards.
C15_LockDiscipline ==
    /\ \A r \in Req :
        /\ mutex = Worker(r) => wpc[r] = "free"
        /\ wpc[r] \in {"start", "poll", "write", "callback", "lock"}
            => mutex # Worker(r)
        /\ mutex # Player(r)
    /\ mutex = Destroyer => destroy.pc \in {"scan", "close"}
    /\ destroy.pc \in {"sem_wait", "relock", "free"} => mutex # Destroyer
    /\ mutex = Canceller => cancel.pc \in {"scan", "close"}

\* driver_destroy waits on the semaphore while a player thread holds the
\* mutex and another is in write()
C15_Witness ==
    /\ destroy.pc = "sem_wait"
    /\ \E r1, r2 \in Req :
        /\ mutex = Worker(r1)
        /\ wpc[r2] = "write"

\* C16: a request on the list whose pipe has had its write end closed is
\* dead, so a player thread that leaves its loop at a poll() with the pipe
\* closed goes on to take the mutex without invoking the callback.
C16_SignalImpliesDead ==
    /\ [](\A i \in DOMAIN outstanding :
            fds[outstanding[i]].pipe1 = "closed" => out[outstanding[i]].dead)
    /\ [][\A r \in Req :
            ( /\ wpc[r] = "poll"
              /\ fds[r].pipe1 # "open"
              /\ wpc'[r] # "poll"
              /\ halted' # "abort" )
            => (wpc'[r] = "lock" /\ cbs'[r] = cbs[r]) ]_vars

\* a cancelled player thread has left its loop and waits for the mutex,
\* its callback invoked by driver_cancel alone
C16_Witness ==
    \E r \in Req :
        /\ wpc[r] = "lock"
        /\ outstanding # <<>>
        /\ outstanding[1] = r
        /\ fds[r].pipe1 = "closed"
        /\ out[r].dead
        /\ cbs[r] = <<CA_ERROR_CANCELED>>

\* C17: whatever the sizes of the partial writes, what a player thread has
\* written to the device is at all times the first bytes of the file in
\* order, with no byte written twice or skipped; the bytes still in the
\* buffer are the next ones; the file is read only when the buffer is
\* empty; and a thread that passes CA_SUCCESS has written every byte.
C17_WrittenIsPrefix ==
    /\ [](\A r \in Req :
            /\ src[r].dev = [i \in 1..Len(src[r].dev) |-> i]
            /\ wpc[r] \in {"poll", "write"} =>
                /\ Len(src[r].dev) + wst[r].nbytes = src[r].read
                /\ src[r].read + src[r].left = env.bytes
                /\ SubSeq(wst[r].data, wst[r].d + 1,
                          wst[r].d + wst[r].nbytes)
                    = [i \in 1..wst[r].nbytes |-> Len(src[r].dev) + i])
    /\ [][\A r \in Req :
            /\ src'[r].read # src[r].read /\ wpc'[r] # "done"
                => wst[r].nbytes = 0
            /\ ( /\ wpc[r] = "callback"
                 /\ wpc'[r] = "lock"
                 /\ wst[r].ret = CA_SUCCESS )
                => /\ Len(src[r].dev) = env.bytes
                   /\ cbs'[r] = Append(cbs[r], CA_SUCCESS) ]_vars

\* a file longer than the buffer has been written whole, in more writes
\* than reads, and the thread has passed CA_SUCCESS
C17_Witness ==
    /\ env.bytes = MaxStream
    /\ wpc[1] = "lock"
    /\ cbs[1] = <<CA_SUCCESS>>
    /\ src[1].dev = [i \in 1..MaxStream |-> i]

\* the slots of the requests on the list
Listed == {outstanding[i] : i \in DOMAIN outstanding}

\* C18: no request is used after it is freed. Every request on the list is
\* unfreed, and so is the request of every player thread that has not ended;
\* driver_cancel and driver_destroy have their cursor on an element of the
\* list only with the mutex held, and write only to listed requests, with
\* the mutex held; a request is freed only once it is off the list, and the
\* player thread takes it off and frees it within one hold of the mutex.
C18_NoUseAfterFree ==
    /\ [](/\ \A r \in Listed : out[r].alloc = "live"
          /\ \A r \in Req : wpc[r] \notin {"none", "done"}
                                => out[r].alloc = "live"
          /\ cancel.pc \in {"scan", "close"} =>
                /\ mutex = Canceller
                /\ cancel.cur \in DOMAIN outstanding
          /\ destroy.pc \in {"scan", "close"} =>
                /\ mutex = Destroyer
                /\ destroy.cur \in DOMAIN outstanding)
    /\ [][\A r \in Req :
            /\ (out[r].alloc = "live" /\ out'[r].alloc = "live"
                    /\ out'[r] # out[r])
                => /\ r \in Listed
                   /\ mutex \in {Canceller, Destroyer}
            /\ (out[r].alloc = "live" /\ out'[r].alloc = "freed")
                => /\ r \notin Listed'
                   /\ wpc[r] # "none" =>
                        /\ r \notin Listed
                        /\ wpc[r] = "free"
                        /\ mutex = Worker(r)
            /\ (r \in Listed /\ r \notin Listed' /\ wpc[r] # "none"
                    /\ halted' # "abort")
                => /\ mutex = Nobody
                   /\ mutex' = Worker(r)
                   /\ wpc'[r] = "free" ]_vars

\* driver_cancel holds the mutex on a listed request it has just marked,
\* while another request has been taken off the list and freed by its thread
C18_Witness ==
    /\ cancel.pc = "close"
    /\ out[outstanding[cancel.cur]].dead
    /\ \E r \in Req :
        /\ wpc[r] = "done"
        /\ out[r].alloc = "freed"
        /\ r \notin Listed

\* C19: the driver state outlives every player thread's use of it. In the
\* step in which driver_destroy frees the mutex, the semaphore and the driver
\* state, no player thread holds the mutex and every player thread that was
\* started has ended: none has a lock, an unlock, a sem_post or an access to
\* the list ahead of it.
C19_DriverOutlivesWorkers ==
    [][(destroy.pc = "free" /\ destroy'.pc = "idle" /\ halted' # "abort")
        => \A r \in Req :
            /\ mutex # Worker(r)
            /\ wpc[r] \in {"none", "done"}]_vars

====
